---- MODULE Spec2Model ----
(***************************************************************************)
(* A model of SandSim2000/TheGreatWar.cpp: the Quadtree, Camera and Unit   *)
(* classes and the frame loop of main.                                     *)
(*                                                                         *)
(* Numbers.  The program's floats are modelled as exact integers counted   *)
(* in units of 1/Scale pixel, Scale a power of two large enough that every *)
(* halving the model performs is exact, as it is in binary32 for the       *)
(* magnitudes the model draws (window sizes and cursor positions of a few  *)
(* thousand pixels).  zoomFactor is counted in steps of 0.05, the only     *)
(* increment updateZoom ever adds.  Rounding, overflow to infinity and NaN *)
(* are outside the model.                                                  *)
(***************************************************************************)
EXTENDS Integers, Sequences, FiniteSets, TLC

VARIABLES root, threw, calls, at, crArg, crRes, op,
          window, camera, unit, pc, ev, mouse, closeSeen, scrolls, renders,
          exitCode, qPoint, qRes

treeVars == <<root, threw, calls, at, crArg, crRes>>
mainVars == <<window, camera, pc, ev, mouse, closeSeen, scrolls, renders, exitCode>>
unitVars == <<unit, qPoint, qRes>>
vars == <<root, threw, calls, at, crArg, crRes, op,
          window, camera, unit, pc, ev, mouse, closeSeen, scrolls, renders,
          exitCode, qPoint, qRes>>

(***************************************************************************)
(* Bounds of the model.                                                    *)
(***************************************************************************)
MaxDepth == 3
MaxCalls == 2

\* One float unit is 1/Scale pixel: one halving per level, and one more for
\* a direct calculateChildRect call on a leaf.
Scale == 2 ^ (MaxDepth + 1)

\* static_cast<float>(n) of an integer pixel count.
ToFloat(n) == n * Scale

\* f / 2.0f of a float.
Halve(f) == f \div 2

(***************************************************************************)
(* class Quadtree                                                          *)
(***************************************************************************)
\* sf::FloatRect(left, top, width, height)
FloatRect(l, t, w, h) == [left |-> l, top |-> t, width |-> w, height |-> h]

\* Quadtree(rect, initialDepth): no children yet.
Quadtree(rect, initialDepth) ==
    [bounds |-> rect, depth |-> initialDepth, children |-> <<>>]

\* What a call of calculateChildRect ends in when it throws.
InvalidArgument == [ok |-> FALSE, rect |-> FloatRect(0, 0, 0, 0)]

Returned(rect) == [ok |-> TRUE, rect |-> rect]

\* calculateChildRect with the top-right and bottom-left cases exchanged.
calculateChildRectSwapped(bounds, childIndex) ==
    LET halfWidth == Halve(bounds.width)
        halfHeight == Halve(bounds.height)
    IN CASE childIndex = 0 ->
              Returned(FloatRect(bounds.left, bounds.top, halfWidth, halfHeight))
         [] childIndex = 1 ->
              Returned(FloatRect(bounds.left, bounds.top + halfHeight,
                                 halfWidth, halfHeight))
         [] childIndex = 2 ->
              Returned(FloatRect(bounds.left + halfWidth, bounds.top,
                                 halfWidth, halfHeight))
         [] childIndex = 3 ->
              Returned(FloatRect(bounds.left + halfWidth, bounds.top + halfHeight,
                                 halfWidth, halfHeight))
         [] OTHER -> InvalidArgument

calculateChildRect(bounds, childIndex) ==
    LET halfWidth == Halve(bounds.width)
        halfHeight == Halve(bounds.height)
    IN CASE childIndex = 0 ->
              Returned(FloatRect(bounds.left, bounds.top, halfWidth, halfHeight))
         [] childIndex = 1 ->
              Returned(FloatRect(bounds.left + halfWidth, bounds.top,
                                 halfWidth, halfHeight))
         [] childIndex = 2 ->
              Returned(FloatRect(bounds.left, bounds.top + halfHeight,
                                 halfWidth, halfHeight))
         [] childIndex = 3 ->
              Returned(FloatRect(bounds.left + halfWidth, bounds.top + halfHeight,
                                 halfWidth, halfHeight))
         [] OTHER -> InvalidArgument

\* The loop bound written i <= 4.
LoopEndOffByOne == 4 + 1

\* The bound of subdivide's loop, for (int i = 0; i < 4; ++i).
LoopEnd == 4

RECURSIVE subdivide(_)
RECURSIVE subdivideLoop(_, _)

\* The loop of subdivide from index i on: the node as the loop leaves it, and
\* whether an exception left the loop early.
subdivideLoop(node, i) ==
    IF i >= LoopEnd
    THEN [node |-> node, threw |-> FALSE]
    ELSE LET childRect == calculateChildRect(node.bounds, i)
         IN IF ~childRect.ok
            THEN [node |-> node, threw |-> TRUE]
            ELSE LET child == subdivide(Quadtree(childRect.rect, node.depth - 1))
                     pushed == [node EXCEPT !.children = Append(@, child.node)]
                 IN IF child.threw
                    THEN [node |-> pushed, threw |-> TRUE]
                    ELSE subdivideLoop(pushed, i + 1)

\* subdivide without the !children.empty() test.
subdivideNoGuard(node) ==
    IF node.depth <= 0
    THEN [node |-> node, threw |-> FALSE]
    ELSE subdivideLoop(node, 0)

\* subdivide without the recursive call on each new child.
subdivideOneLevel(node) ==
    IF Len(node.children) # 0 \/ node.depth <= 0
    THEN [node |-> node, threw |-> FALSE]
    ELSE [node |-> [node EXCEPT !.children =
                       [k \in 1..4 |->
                          Quadtree(calculateChildRect(node.bounds, k - 1).rect,
                                   node.depth - 1)]],
          threw |-> FALSE]

\* subdivide(): the node after the call, and whether the call threw.
subdivide(node) ==
    IF Len(node.children) # 0 \/ node.depth <= 0
    THEN [node |-> node, threw |-> FALSE]
    ELSE subdivideLoop(node, 0)

(***************************************************************************)
(* The tree as a value: nodes are addressed by the path of child positions *)
(* (1..4, the order of the children vector) leading to them from the root. *)
(***************************************************************************)
RECURSIVE NodeExists(_, _)
NodeExists(node, path) ==
    IF path = <<>>
    THEN TRUE
    ELSE /\ Head(path) \in DOMAIN node.children
         /\ NodeExists(node.children[Head(path)], Tail(path))

RECURSIVE NodeAt(_, _)
NodeAt(node, path) ==
    IF path = <<>> THEN node ELSE NodeAt(node.children[Head(path)], Tail(path))

RECURSIVE ReplaceAt(_, _, _)
ReplaceAt(node, path, new) ==
    IF path = <<>>
    THEN new
    ELSE [node EXCEPT !.children[Head(path)] = ReplaceAt(@, Tail(path), new)]

RECURSIVE NodesUnder(_)
\* Every node of the tree under (and including) node.
NodesUnder(node) ==
    {node} \cup UNION {NodesUnder(node.children[k]) : k \in DOMAIN node.children}

RECURSIVE NodeCount(_)
RECURSIVE CountFrom(_, _)
CountFrom(children, k) ==
    IF k > Len(children) THEN 0
    ELSE NodeCount(children[k]) + CountFrom(children, k + 1)

\* The number of Quadtree objects reachable from node, itself included.
NodeCount(node) == 1 + CountFrom(node.children, 1)

(***************************************************************************)
(* The Quadtree class on its own: a root built from any rectangle and      *)
(* depth, then calls of its two public operations on any node.             *)
(***************************************************************************)
Origins == {<<0, 0>>, <<37, 11>>}
Sizes == {<<1366, 768>>, <<801, 601>>}
Depths == (0 - 1) .. MaxDepth
Paths == {<<>>, <<1>>, <<4>>, <<2, 3>>}
Indices == (0 - 1) .. 4 \cup {7}

NoPoint == [x |-> 0, y |-> 0]

\* The variables of main and of the Unit, parked while the tree is exercised.
MainIdle ==
    /\ window = [w |-> 0, h |-> 0, open |-> FALSE]
    /\ camera = [x |-> 0, y |-> 0, zoomFactor |-> 0, scrollSpeed |-> 0]
    /\ unit = [x |-> 0, y |-> 0, radius |-> 0, isSelected |-> FALSE]
    /\ pc = "none"
    /\ ev = [type |-> "None", button |-> "None", delta |-> 0]
    /\ mouse = NoPoint
    /\ closeSeen = FALSE
    /\ scrolls = 0
    /\ renders = 0
    /\ exitCode = 0 - 1
    /\ qPoint = NoPoint
    /\ qRes = FALSE

TreeIdle ==
    /\ threw = FALSE
    /\ calls = 0
    /\ at = <<>>
    /\ crArg = 0
    /\ crRes = InvalidArgument

InitTree ==
    /\ \E o \in Origins, s \in Sizes, d \in Depths :
          root = Quadtree(FloatRect(ToFloat(o[1]), ToFloat(o[2]),
                                    ToFloat(s[1]), ToFloat(s[2])), d)
    /\ TreeIdle
    /\ op = "new"
    /\ MainIdle

\* node.subdivide() on the node at path.
CallSubdivide(path) ==
    /\ calls < MaxCalls
    /\ NodeExists(root, path)
    /\ LET r == subdivide(NodeAt(root, path))
       IN /\ root' = ReplaceAt(root, path, r.node)
          /\ threw' = r.threw
    /\ calls' = calls + 1
    /\ at' = path
    /\ op' = "subdivide"
    /\ UNCHANGED <<crArg, crRes>>
    /\ UNCHANGED mainVars
    /\ UNCHANGED unitVars

\* node.calculateChildRect(childIndex) on the node at path: a const method.
CallCalculateChildRect(path, childIndex) ==
    /\ NodeExists(root, path)
    /\ crArg' = childIndex
    /\ crRes' = calculateChildRect(NodeAt(root, path).bounds, childIndex)
    /\ at' = path
    /\ op' = "calculateChildRect"
    /\ UNCHANGED <<root, threw, calls>>
    /\ UNCHANGED mainVars
    /\ UNCHANGED unitVars

NextTree ==
    \/ \E path \in Paths : CallSubdivide(path)
    \/ \E path \in Paths, i \in Indices : CallCalculateChildRect(path, i)

SpecTree == InitTree /\ [][NextTree]_vars

(***************************************************************************)
(* class Camera                                                            *)
(***************************************************************************)
\* zoomFactor is counted in steps of 0.05: 1.f is 20 steps, 0.1f is 2, and
\* scrollDelta * 0.05f is scrollDelta steps.
ZoomOne == 20
ZoomFloor == 2
ZoomPerDelta == 1
ScrollSpeedDefault == 5
EDGE_THRESHOLD == 70

Max(a, b) == IF a < b THEN b ELSE a

\* Camera(initialPosition) with the default zoomFactor 1.f and scrollSpeed 5.f.
Camera(initialPosition) ==
    [x |-> initialPosition.x, y |-> initialPosition.y,
     zoomFactor |-> ZoomOne, scrollSpeed |-> ToFloat(ScrollSpeedDefault)]

\* mouse > size - threshold as C++ evaluates it for an int mouse, an unsigned
\* size and an int threshold: both sides are converted to 32-bit unsigned, so
\* size - threshold wraps above every int when size < threshold, and a
\* negative mouse wraps above every difference that did not wrap.
GreaterUnsigned(m, size, threshold) ==
    CASE size >= threshold /\ m >= 0 -> m > size - threshold
      [] size >= threshold /\ m < 0 -> TRUE
      [] size < threshold /\ m >= 0 -> FALSE
      [] OTHER -> m > size - threshold

\* One axis of updateEdgeScrolling: the new coordinate.
\* One axis with the two comparisons written <= and >=.
scrollAxisInclusive(pos, m, size, scrollSpeed) ==
    IF m <= EDGE_THRESHOLD THEN pos - scrollSpeed
    ELSE IF GreaterUnsigned(m + 1, size, EDGE_THRESHOLD) THEN pos + scrollSpeed
    ELSE pos

scrollAxis(pos, m, size, scrollSpeed) ==
    IF m < EDGE_THRESHOLD THEN pos - scrollSpeed
    ELSE IF GreaterUnsigned(m, size, EDGE_THRESHOLD) THEN pos + scrollSpeed
    ELSE pos

\* updateEdgeScrolling(window) with the window's size and the cursor
\* sf::Mouse::getPosition(window) returned.
updateEdgeScrolling(cam, size, m) ==
    [cam EXCEPT !.x = scrollAxis(@, m.x, size.w, cam.scrollSpeed),
                !.y = scrollAxis(@, m.y, size.h, cam.scrollSpeed)]

\* updateZoom without the std::max.
updateZoomNoFloor(cam, scrollDelta) ==
    [cam EXCEPT !.zoomFactor = @ + scrollDelta * ZoomPerDelta]

\* updateZoom(scrollDelta)
updateZoom(cam, scrollDelta) ==
    [cam EXCEPT !.zoomFactor = Max(ZoomFloor, @ + scrollDelta * ZoomPerDelta)]

(***************************************************************************)
(* class Unit                                                              *)
(***************************************************************************)
\* Unit(initialPosition, radius)
Unit(initialPosition, radius) ==
    [x |-> initialPosition.x, y |-> initialPosition.y,
     radius |-> radius, isSelected |-> FALSE]

\* moveTo(destination)
moveTo(u, destination) == [u EXCEPT !.x = destination.x, !.y = destination.y]

\* contains with the stored position taken as the centre.
containsAroundPosition(u, point) ==
    LET dx == point.x - u.x
        dy == point.y - u.y
    IN dx * dx + dy * dy <= u.radius * u.radius

\* contains(point)
contains(u, point) ==
    LET dx == point.x - (u.x + u.radius)
        dy == point.y - (u.y + u.radius)
    IN dx * dx + dy * dy <= u.radius * u.radius

(***************************************************************************)
(* main: construction, the one subdivide() call, and the frame loop.       *)
(***************************************************************************)
MaxPan == 1
MaxZoom == 30

RootDepth == 3
UnitRadius == 30

\* The desktop modes the window is opened with.
DesktopModes == {<<200, 200>>, <<801, 601>>}

\* Cursor positions sf::Mouse::getPosition(window) returns at a button press.
ClickPoints ==
    {[x |-> 0, y |-> 0], [x |-> 130, y |-> 130],
     [x |-> 500, y |-> 500], [x |-> 430, y |-> 330]}

\* Cursor positions it returns at the end of a frame: on either side of each
\* threshold, in the middle, and outside the window.
FrameCursors(size) ==
    LET lo == EDGE_THRESHOLD
        mx == size.w \div 2
        my == size.h \div 2
        hx == size.w - EDGE_THRESHOLD
        hy == size.h - EDGE_THRESHOLD
    IN {[x |-> lo - 1, y |-> lo - 1], [x |-> lo, y |-> lo],
        [x |-> hx + 1, y |-> hy + 1], [x |-> hx, y |-> hy],
        [x |-> lo - 1, y |-> hy + 1], [x |-> hx + 1, y |-> lo - 1],
        [x |-> mx, y |-> lo - 1], [x |-> mx, y |-> hy + 1],
        [x |-> lo - 1, y |-> my], [x |-> hx + 1, y |-> my],
        [x |-> 0 - 5, y |-> size.h + 5], [x |-> size.w + 5, y |-> 0 - 5]}

\* event.mouseWheelScroll.delta, a float, counted in halves of a notch.
WheelDeltas == {0 - 2000, 0 - 20, 0 - 1, 0, 21}

\* The float f (in halves) converted to the int parameter of updateZoom:
\* truncation toward zero.
FloatToInt(f) == IF f >= 0 THEN f \div 2 ELSE 0 - ((0 - f) \div 2)

Buttons == {"Left", "Right", "Middle"}

Event(type, button, delta) == [type |-> type, button |-> button, delta |-> delta]
NoEvent == Event("None", "None", 0)

\* static_cast<sf::Vector2f>(p) of an integer point.
ToVector2f(p) == [x |-> ToFloat(p.x), y |-> ToFloat(p.y)]

\* windowCenter(window.getSize().x / 2.0f, window.getSize().y / 2.0f)
windowCenter(size) == [x |-> Halve(ToFloat(size.w)), y |-> Halve(ToFloat(size.h))]

Abs(n) == IF n < 0 THEN 0 - n ELSE n

Init ==
    /\ \E m \in DesktopModes :
          window = [w |-> m[1], h |-> m[2], open |-> TRUE]
    /\ root = Quadtree(FloatRect(0, 0, ToFloat(window.w), ToFloat(window.h)),
                       RootDepth)
    /\ camera = Camera(windowCenter(window))
    /\ unit = Unit(windowCenter(window), ToFloat(UnitRadius))
    /\ pc = "subdivide"
    /\ ev = NoEvent
    /\ mouse = NoPoint
    /\ closeSeen = FALSE
    /\ scrolls = 0
    /\ renders = 0
    /\ exitCode = 0 - 1
    /\ op = "new"
    /\ TreeIdle
    /\ qPoint = NoPoint
    /\ qRes = FALSE

\* root.subdivide();
MainSubdivide ==
    /\ pc = "subdivide"
    /\ LET r == subdivide(root)
       IN /\ root' = r.node
          /\ threw' = r.threw
          /\ pc' = IF r.threw THEN "terminated" ELSE "while"
    /\ calls' = calls + 1
    /\ op' = "subdivide"
    /\ UNCHANGED <<at, crArg, crRes>>
    /\ UNCHANGED <<window, camera, ev, mouse, closeSeen, scrolls, renders, exitCode>>
    /\ UNCHANGED unitVars

\* while (window.isOpen()): a new iteration starts, or main returns 0.
LoopTest ==
    /\ pc = "while"
    /\ IF window.open
       THEN /\ pc' = "poll"
            /\ scrolls' = 0
            /\ renders' = 0
            /\ UNCHANGED exitCode
       ELSE /\ pc' = "done"
            /\ exitCode' = 0
            /\ UNCHANGED <<scrolls, renders>>
    /\ ev' = NoEvent
    /\ mouse' = NoPoint
    /\ op' = "while"
    /\ UNCHANGED <<window, camera, closeSeen>>
    /\ UNCHANGED treeVars
    /\ UNCHANGED unitVars

\* pollEvent delivers sf::Event::Closed: window.close().  Whether pollEvent
\* still delivers events once the window is closed is the library's affair:
\* the model lets every kind of event follow.
PollClosed ==
    /\ pc = "poll"
    /\ window' = [window EXCEPT !.open = FALSE]
    /\ closeSeen' = TRUE
    /\ ev' = Event("Closed", "None", 0)
    /\ mouse' = NoPoint
    /\ op' = "event"
    /\ UNCHANGED <<camera, pc, scrolls, renders, exitCode>>
    /\ UNCHANGED treeVars
    /\ UNCHANGED unitVars

\* pollEvent delivers sf::Event::MouseWheelScrolled with the float delta.
PollWheel(delta) ==
    /\ pc = "poll"
    /\ camera' = updateZoom(camera, FloatToInt(delta))
    /\ camera'.zoomFactor <= MaxZoom
    /\ ev' = Event("MouseWheelScrolled", "None", delta)
    /\ mouse' = NoPoint
    /\ op' = "event"
    /\ UNCHANGED <<window, pc, closeSeen, scrolls, renders, exitCode>>
    /\ UNCHANGED treeVars
    /\ UNCHANGED unitVars

\* The left-button branch selecting instead of toggling.
leftButtonPressedSelects(u, mousePos) ==
    IF contains(u, mousePos)
    THEN [u EXCEPT !.isSelected = TRUE]
    ELSE [u EXCEPT !.isSelected = FALSE]

\* The left-button branch of the MouseButtonPressed handler.
leftButtonPressed(u, mousePos) ==
    IF contains(u, mousePos)
    THEN [u EXCEPT !.isSelected = ~u.isSelected]
    ELSE [u EXCEPT !.isSelected = FALSE]

\* The right-button branch without the isSelected test.
rightButtonPressedAlways(u, mousePos) == moveTo(u, mousePos)

\* The right-button branch of the MouseButtonPressed handler.
rightButtonPressed(u, mousePos) ==
    IF u.isSelected THEN moveTo(u, mousePos) ELSE u

\* pollEvent delivers sf::Event::MouseButtonPressed for the button; the
\* handler reads the cursor with sf::Mouse::getPosition(window).
PollButton(button, cursor) ==
    /\ pc = "poll"
    /\ LET mousePos == ToVector2f(cursor)
       IN unit' = CASE button = "Left" -> leftButtonPressed(unit, mousePos)
                    [] button = "Right" -> rightButtonPressed(unit, mousePos)
                    [] OTHER -> unit
    /\ ev' = Event("MouseButtonPressed", button, 0)
    /\ mouse' = cursor
    /\ op' = "event"
    /\ UNCHANGED <<window, camera, pc, closeSeen, scrolls, renders, exitCode>>
    /\ UNCHANGED treeVars
    /\ UNCHANGED <<qPoint, qRes>>

\* pollEvent delivers an event of a kind the loop has no branch for.
PollOther ==
    /\ pc = "poll"
    /\ ev' = Event("Other", "None", 0)
    /\ mouse' = NoPoint
    /\ op' = "event"
    /\ UNCHANGED <<window, camera, pc, closeSeen, scrolls, renders, exitCode>>
    /\ UNCHANGED treeVars
    /\ UNCHANGED unitVars

\* pollEvent returns false: the queue is drained.
PollEmpty ==
    /\ pc = "poll"
    /\ pc' = "frame"
    /\ ev' = NoEvent
    /\ mouse' = NoPoint
    /\ op' = "drained"
    /\ UNCHANGED <<window, camera, closeSeen, scrolls, renders, exitCode>>
    /\ UNCHANGED treeVars
    /\ UNCHANGED unitVars

\* The rest of the iteration skipped once the window is closed.
FrameOnlyWhileOpen(cursor) ==
    /\ pc = "frame"
    /\ IF window.open
       THEN /\ camera' = updateEdgeScrolling(camera, window, cursor)
            /\ scrolls' = scrolls + 1
            /\ renders' = renders + 1
       ELSE UNCHANGED <<camera, scrolls, renders>>
    /\ Abs(camera'.x - windowCenter(window).x) <= MaxPan * camera.scrollSpeed
    /\ Abs(camera'.y - windowCenter(window).y) <= MaxPan * camera.scrollSpeed
    /\ mouse' = cursor
    /\ pc' = "while"
    /\ op' = "frame"
    /\ UNCHANGED <<window, ev, closeSeen, exitCode>>
    /\ UNCHANGED treeVars
    /\ UNCHANGED unitVars

\* The rest of the iteration: updateEdgeScrolling with the cursor read, then
\* clear, applyTransform, the two draws, display and the frame-pacing sleep.
Frame(cursor) ==
    /\ pc = "frame"
    /\ camera' = updateEdgeScrolling(camera, window, cursor)
    /\ Abs(camera'.x - windowCenter(window).x) <= MaxPan * camera.scrollSpeed
    /\ Abs(camera'.y - windowCenter(window).y) <= MaxPan * camera.scrollSpeed
    /\ scrolls' = scrolls + 1
    /\ renders' = renders + 1
    /\ mouse' = cursor
    /\ pc' = "while"
    /\ op' = "frame"
    /\ UNCHANGED <<window, ev, closeSeen, exitCode>>
    /\ UNCHANGED treeVars
    /\ UNCHANGED unitVars

Next ==
    \/ MainSubdivide
    \/ LoopTest
    \/ PollClosed
    \/ \E delta \in WheelDeltas : PollWheel(delta)
    \/ \E button \in Buttons, cursor \in ClickPoints : PollButton(button, cursor)
    \/ PollOther
    \/ PollEmpty
    \/ \E cursor \in FrameCursors(window) : Frame(cursor)

Spec == Init /\ [][Next]_vars

(***************************************************************************)
(* The Unit class on its own: a unit built at any position with any        *)
(* radius, then calls of moveTo and contains.                              *)
(***************************************************************************)
UnitPositions == {[x |-> 0, y |-> 0], [x |-> 100, y |-> 100],
                  [x |-> 0 - 40, y |-> 250]}

\* Radii as floats: 30, 1, one half, one unit of the model, 0 and -2.
Radii == {ToFloat(30), ToFloat(1), Halve(ToFloat(1)), 1, 0, ToFloat(0 - 2)}

\* The points contains is asked about: the stored position, the offset
\* centre, points on and just outside the circle, and fixed ones.
QueryPoints(u) ==
    {[x |-> u.x, y |-> u.y],
     [x |-> u.x + u.radius, y |-> u.y + u.radius],
     [x |-> u.x + u.radius + u.radius, y |-> u.y + u.radius],
     [x |-> u.x + u.radius + u.radius + 1, y |-> u.y + u.radius],
     [x |-> u.x + u.radius, y |-> u.y],
     [x |-> u.x + u.radius, y |-> u.y - 1],
     ToVector2f([x |-> 130, y |-> 130]), ToVector2f([x |-> 0, y |-> 0])}

InitUnit ==
    /\ \E p \in UnitPositions, r \in Radii : unit = Unit(ToVector2f(p), r)
    /\ qPoint = NoPoint
    /\ qRes = FALSE
    /\ op = "new"
    /\ root = Quadtree(FloatRect(0, 0, 0, 0), 0)
    /\ TreeIdle
    /\ window = [w |-> 0, h |-> 0, open |-> FALSE]
    /\ camera = [x |-> 0, y |-> 0, zoomFactor |-> 0, scrollSpeed |-> 0]
    /\ pc = "none"
    /\ ev = NoEvent
    /\ mouse = NoPoint
    /\ closeSeen = FALSE
    /\ scrolls = 0
    /\ renders = 0
    /\ exitCode = 0 - 1

\* unit.contains(point)
CallContains(point) ==
    /\ qPoint' = point
    /\ qRes' = contains(unit, point)
    /\ op' = "contains"
    /\ UNCHANGED unit
    /\ UNCHANGED treeVars
    /\ UNCHANGED mainVars

\* unit.moveTo(destination)
CallMoveTo(destination) ==
    /\ unit' = moveTo(unit, destination)
    /\ op' = "moveTo"
    /\ UNCHANGED <<qPoint, qRes>>
    /\ UNCHANGED treeVars
    /\ UNCHANGED mainVars

NextUnit ==
    \/ \E point \in QueryPoints(unit) : CallContains(point)
    \/ \E p \in UnitPositions : CallMoveTo(ToVector2f(p))

SpecUnit == InitUnit /\ [][NextUnit]_vars

(***************************************************************************)
(* Geometry used to state the claims about the tree.                       *)
(***************************************************************************)
Right(r) == r.left + r.width
Bottom(r) == r.top + r.height

\* a is exactly half of b.
IsHalfOf(a, b) == a + a = b

\* Rectangle r lies inside rectangle b.
Inside(r, b) ==
    /\ b.left <= r.left /\ Right(r) <= Right(b)
    /\ b.top <= r.top /\ Bottom(r) <= Bottom(b)

\* The cells of the grid drawn by every edge of b and of the rectangles rs.
Cells(b, rs) ==
    LET all == rs \cup {b}
        xs == {r.left : r \in all} \cup {Right(r) : r \in all}
        ys == {r.top : r \in all} \cup {Bottom(r) : r \in all}
        xcuts == {<<p, q>> \in xs \X xs : p < q /\ ~\E m \in xs : p < m /\ m < q}
        ycuts == {<<p, q>> \in ys \X ys : p < q /\ ~\E m \in ys : p < m /\ m < q}
    IN {FloatRect(cx[1], cy[1], cx[2] - cx[1], cy[2] - cy[1]) :
            cx \in xcuts, cy \in ycuts}

\* The rectangles of the sequence rs cover b with no gap and no overlap: each
\* lies inside b, and every grid cell inside b lies in exactly one of them.
Tiles(b, rs) ==
    /\ \A k \in DOMAIN rs : Inside(rs[k], b)
    /\ \A c \in Cells(b, {rs[k] : k \in DOMAIN rs}) :
          Inside(c, b) => Cardinality({k \in DOMAIN rs : Inside(c, rs[k])}) = 1

\* The children of node n are the four quadrants of rectangle b, in the order
\* top-left, top-right, bottom-left, bottom-right, each of depth d - 1.
FourQuadrants(n, b, d) ==
    /\ Len(n.children) = 4
    /\ LET c == [k \in 1..4 |-> n.children[k].bounds]
       IN /\ \A k \in 1..4 : /\ IsHalfOf(c[k].width, b.width)
                             /\ IsHalfOf(c[k].height, b.height)
          /\ c[1].left = b.left /\ c[1].top = b.top
          /\ Right(c[2]) = Right(b) /\ c[2].top = b.top
          /\ c[3].left = b.left /\ Bottom(c[3]) = Bottom(b)
          /\ Right(c[4]) = Right(b) /\ Bottom(c[4]) = Bottom(b)
          /\ Tiles(b, c)
    /\ \A k \in 1..4 : n.children[k].depth = d - 1

\* C1: subdivide() on a childless node of rectangle (x,y,w,h) and depth d > 0
\* leaves it with exactly four children, the top-left, top-right, bottom-left
\* and bottom-right quadrants of size (w/2, h/2) in index order, tiling
\* (x,y,w,h) with no gap and no overlap, each of depth d-1; and so for every
\* node the call went on to subdivide below it.
C1_SubdivideMakesQuadrants ==
    [][\A p \in Paths :
         (/\ op' = "subdivide" /\ at' = p /\ NodeExists(root, p)
          /\ NodeAt(root, p).depth > 0 /\ NodeAt(root, p).children = <<>>)
         => /\ FourQuadrants(NodeAt(root', p), NodeAt(root, p).bounds,
                             NodeAt(root, p).depth)
            /\ \A n \in NodesUnder(NodeAt(root', p)) :
                  n.depth > 0 => FourQuadrants(n, n.bounds, n.depth)]_vars

C1_Witness ==
    /\ op = "subdivide" /\ at = <<>> /\ calls = 1
    /\ root.depth = 2 /\ Len(root.children) = 4
    /\ root.bounds.left = ToFloat(37) /\ root.bounds.width = ToFloat(801)

\* C2: after a subdivide() call on a childless root of depth d >= 0 the tree
\* holds exactly (4^(d+1) - 1)/3 nodes, root included (1, 5, 21, 85 for
\* d = 0, 1, 2, 3), and no node of depth 0 has children.
C2_NodeCount ==
    (calls >= 1 /\ root.depth >= 0)
    => /\ NodeCount(root) * 3 = 4 ^ (root.depth + 1) - 1
       /\ root.depth \in 0..3 => NodeCount(root) = <<1, 5, 21, 85>>[root.depth + 1]
       /\ \A n \in NodesUnder(root) : n.depth = 0 => n.children = <<>>

C2_Witness == calls = 1 /\ op = "subdivide" /\ root.depth = 3 /\ NodeCount(root) = 85

\* C3: a subdivide() call that is not the first one, on any node, leaves the
\* whole tree as it was, and no node of depth <= 0 ever has children.
C3_SubdivideIdempotent ==
    /\ [](\A n \in NodesUnder(root) : n.depth <= 0 => n.children = <<>>)
    /\ [][(op' = "subdivide" /\ calls >= 1) => root' = root]_vars

C3_Witness ==
    /\ calls = 2 /\ op = "subdivide" /\ at = <<>>
    /\ root.depth = 2 /\ Len(root.children) = 4

\* C8: calculateChildRect(index) ends in the invalid-argument error exactly
\* for an index outside 0..3, leaves the tree as it was, and no subdivide()
\* call ends in that error.
C8_InvalidIndex ==
    /\ [](op = "calculateChildRect" => (crRes.ok <=> crArg \in 0..3))
    /\ [](op = "subdivide" => ~threw)
    /\ [][op' = "calculateChildRect" => root' = root]_vars

C8_Witness ==
    /\ op = "calculateChildRect" /\ crArg = 4 /\ ~crRes.ok
    /\ calls = 1 /\ Len(root.children) = 4 /\ ~threw

(***************************************************************************)
(* Claims about the Camera, the Unit and the frame loop.                   *)
(***************************************************************************)
IsWheel(e) == e.type = "MouseWheelScrolled"
IsPress(e, button) == e.type = "MouseButtonPressed" /\ e.button = button

\* C4: zoomFactor is never below 0.1; each zoom call with delta d sets it to
\* max(0.1, zoomFactor + d * 0.05), with no ceiling; a call with d = -1000
\* from zoomFactor 1.0 yields exactly 0.1.
C4_ZoomFloor ==
    /\ [](camera.zoomFactor >= ZoomFloor)
    /\ [][IsWheel(ev') =>
            LET d == FloatToInt(ev'.delta)
                sum == camera.zoomFactor + d * ZoomPerDelta
            IN /\ camera'.zoomFactor = IF sum > ZoomFloor THEN sum ELSE ZoomFloor
               /\ (camera.zoomFactor = ZoomOne /\ d = 0 - 1000)
                     => camera'.zoomFactor = ZoomFloor]_vars

C4_Witness ==
    /\ IsWheel(ev) /\ FloatToInt(ev.delta) = 0 - 1000
    /\ camera.zoomFactor = ZoomFloor

\* C5: contains(point) is true exactly when the squared distance from point
\* to position + (radius, radius) is at most radius squared; for a radius > 0
\* it is true of position + (radius, radius) and false of position.
C5_ContainsOffsetCentre ==
    op = "contains" =>
       LET cx == unit.x + unit.radius
           cy == unit.y + unit.radius
           d2 == (qPoint.x - cx) * (qPoint.x - cx) + (qPoint.y - cy) * (qPoint.y - cy)
       IN /\ qRes <=> d2 <= unit.radius * unit.radius
          /\ (unit.radius > 0 /\ qPoint.x = cx /\ qPoint.y = cy) => qRes
          /\ (unit.radius > 0 /\ qPoint.x = unit.x /\ qPoint.y = unit.y) => ~qRes

C5_Witness ==
    /\ op = "contains" /\ unit.radius = ToFloat(30)
    /\ qPoint.x = unit.x /\ qPoint.y = unit.y /\ ~qRes

\* C6: a left button press at a point the Unit contains flips isSelected, one
\* at a point it does not contain clears it, and neither moves the Unit; from
\* Unit((100,100), 30, unselected) a left press at (130,130) selects it, and
\* a left press at (0,0) leaves it unselected.
C6_LeftPress ==
    [][IsPress(ev', "Left") =>
         LET hit == contains(unit, ToVector2f(mouse'))
             example == /\ unit.x = ToFloat(100) /\ unit.y = ToFloat(100)
                        /\ unit.radius = ToFloat(30)
         IN /\ hit => unit'.isSelected = ~unit.isSelected
            /\ ~hit => unit'.isSelected = FALSE
            /\ unit'.x = unit.x /\ unit'.y = unit.y /\ unit'.radius = unit.radius
            /\ (example /\ ~unit.isSelected /\ mouse' = [x |-> 130, y |-> 130])
                  => unit'.isSelected
            /\ (example /\ mouse' = [x |-> 0, y |-> 0]) => ~unit'.isSelected]_vars

C6_Witness ==
    /\ IsPress(ev, "Left") /\ mouse = [x |-> 130, y |-> 130]
    /\ unit.x = ToFloat(100) /\ unit.y = ToFloat(100) /\ unit.isSelected

\* C7: a right button press at p moves a selected Unit to exactly p and
\* leaves an unselected one where it is, with isSelected and radius unchanged
\* either way; nothing else ever changes the Unit's position.
C7_RightPress ==
    [][/\ IsPress(ev', "Right") =>
            /\ unit.isSelected =>
                 unit'.x = ToFloat(mouse'.x) /\ unit'.y = ToFloat(mouse'.y)
            /\ ~unit.isSelected => unit'.x = unit.x /\ unit'.y = unit.y
            /\ unit'.isSelected = unit.isSelected
            /\ unit'.radius = unit.radius
       /\ (unit'.x # unit.x \/ unit'.y # unit.y) =>
            IsPress(ev', "Right") /\ unit.isSelected]_vars

C7_Witness ==
    /\ IsPress(ev, "Right") /\ mouse = [x |-> 500, y |-> 500]
    /\ unit.x = ToFloat(500) /\ unit.y = ToFloat(500) /\ unit.isSelected

\* The cursor coordinate m is less than the margin away from the low (left,
\* top) edge, or from the high (right, bottom) edge of a window size long.
NearLowEdge(m) == m < EDGE_THRESHOLD
NearHighEdge(m, size) == size - m < EDGE_THRESHOLD

AxisScrolled(old, new, m, size, speed) ==
    /\ NearLowEdge(m) => new = old - speed
    /\ NearHighEdge(m, size) => new = old + speed
    /\ (~NearLowEdge(m) /\ ~NearHighEdge(m, size)) => new = old

\* C9: one edge-scroll call moves the camera position on each axis by itself:
\* down by scrollSpeed with the cursor in the margin of the left (top) edge,
\* up by scrollSpeed with it in the margin of the right (bottom) edge, and not
\* at all otherwise; zoomFactor and scrollSpeed stay as they are.
C9_EdgeScroll ==
    [][op' = "frame" =>
         /\ AxisScrolled(camera.x, camera'.x, mouse'.x, window.w, camera.scrollSpeed)
         /\ AxisScrolled(camera.y, camera'.y, mouse'.y, window.h, camera.scrollSpeed)
         /\ camera'.zoomFactor = camera.zoomFactor
         /\ camera'.scrollSpeed = camera.scrollSpeed]_vars

C9_Witness ==
    /\ op = "frame"
    /\ mouse = [x |-> EDGE_THRESHOLD - 1, y |-> window.h - EDGE_THRESHOLD + 1]
    /\ camera.x = windowCenter(window).x - camera.scrollSpeed
    /\ camera.y = windowCenter(window).y + camera.scrollSpeed

\* C10: the loop ends only once a window-close event was dispatched, and
\* then main returns 0 without starting another iteration; a wheel-scroll or
\* button-press event never closes the window; every iteration edge-scrolls
\* and renders exactly once, after the events are drained, the closing one
\* included.
C10_FrameLoop ==
    /\ [](pc = "done" => exitCode = 0 /\ closeSeen)
    /\ []((pc = "poll" \/ pc = "frame") => scrolls = 0 /\ renders = 0)
    /\ [][/\ (pc = "while" /\ pc' = "done") => closeSeen
          /\ (pc = "while" /\ closeSeen) => pc' = "done" /\ exitCode' = 0
          /\ (pc = "while" /\ ~closeSeen) => pc' = "poll"
          /\ (IsWheel(ev') \/ ev'.type = "MouseButtonPressed") =>
                /\ window'.open = window.open
                /\ closeSeen' = closeSeen
                /\ pc' = "poll"
          /\ pc = "poll" => pc' \in {"poll", "frame"}
          /\ pc = "frame" => pc' = "while" /\ scrolls' = 1 /\ renders' = 1
          /\ pc = "done" => pc' = "done"]_vars

C10_Witness ==
    /\ pc = "done" /\ exitCode = 0 /\ closeSeen /\ ~window.open
    /\ scrolls = 1 /\ renders = 1

====
